---- MODULE Spec2Model ----
(***************************************************************************)
(* A model of yoruba::main_inu (src/yoruba_inu.cpp), the "inu" / "contents" *)
(* command: option parsing, opening the BAM input, the header validity     *)
(* check, the raw header dump, the report sections and the record loop.    *)
(*                                                                         *)
(* The command line is what CSimpleOpt hands to the loop of lines 139-166: *)
(* the option tokens in order (argv) and the number of positional          *)
(* arguments (nfiles).  The BAM file is what the BamTools reader answers:  *)
(* whether it opens, whether the header is valid, the length of the header *)
(* text, which header sections exist, and the number of records the reader *)
(* yields before GetNextAlignmentCore first returns false (nrecords).      *)
(* Both are fixed by Init and never change; the run itself is sequential.  *)
(*                                                                         *)
(* Lines 283 and 293 use opt_reads and opt_progress, which exist only      *)
(* under _WITH_DEBUG, so the build modelled is the one with _WITH_DEBUG.   *)
(* Every option id of the table is handled by the chain of lines 144-160,  *)
(* so the final else of lines 162-165 has no input that reaches it.        *)
(***************************************************************************)
EXTENDS Integers, Sequences, FiniteSets, TLC

\* ---------------------------------------------------------------- bounds
MaxOptVal   == 2   \* option arguments range over -1 .. MaxOptVal
MaxArgs     == 2   \* length of the free-form option sequences
MaxFiles    == 2   \* positional arguments range over 0 .. MaxFiles
MaxRecords  == 3   \* records the reader yields: 0 .. MaxRecords
MaxRefs     == 3   \* reference count: 0 .. MaxRefs
MaxHeaderLen == 3  \* header text length: 0 .. MaxHeaderLen
MaxPrograms == 2   \* @PG records: 0 .. MaxPrograms
MaxComments == 2   \* @CO lines: 0 .. MaxComments

\* ------------------------------------------------- defaults (lines 31-40)
DefaultReadsToReport == 10
DefaultRefsToReport  == 10
DefaultRawToReport   == 1000
DefaultDebug         == 0
DefaultReads         == -1
DefaultProgress      == 0

VARIABLES
    argv, nfiles, bam,          \* the inputs of the run
    optind,                     \* option tokens consumed by args.Next()
    opt_reads_to_report, opt_quit, opt_quiet, opt_raw,
    opt_refs_to_report, opt_raw_to_report,
    opt_debug, opt_reads, opt_progress,
    input_file,
    opened, closed,             \* the BamReader
    requested,                  \* calls of GetNextAlignmentCore so far
    ref_count, i, n_reads,      \* locals of main_inu
    log,                        \* everything written and every reader call, in order
    pc, rc                      \* position in main_inu, return value (-1: running)

opts == <<opt_reads_to_report, opt_quit, opt_quiet, opt_raw,
          opt_refs_to_report, opt_raw_to_report, opt_debug, opt_reads, opt_progress>>
inputs == <<argv, nfiles, bam>>
locals == <<ref_count, i, n_reads>>
vars == <<argv, nfiles, bam, optind, opt_reads_to_report, opt_quit, opt_quiet, opt_raw,
          opt_refs_to_report, opt_raw_to_report, opt_debug, opt_reads, opt_progress,
          input_file, opened, closed, requested, ref_count, i, n_reads, log, pc, rc>>

\* ------------------------------------------------------------ the inputs
OptVals == (0 - 1) .. MaxOptVal

ValueOpts == {"reads_to_report", "refs_to_report", "raw_to_report",
              "debug", "reads", "progress"}
FlagOpts  == {"quit", "quiet", "raw", "help", "bad"}

Tok(o, v) == [opt |-> o, val |-> v]

\* "bad" is an argument for which args.LastError() != SO_SUCCESS: an unknown
\* option, or an SO_REQ_SEP option without its argument.  val is what
\* strtol/strtoll/atoi return for the option's argument; the values of
\* OptVals fit the int32_t and int64_t variables they are stored in.
Tokens == {Tok(o, v) : o \in ValueOpts, v \in OptVals} \cup {Tok(o, 0) : o \in FlagOpts}

\* the tokens of the free-form command lines: every option, with a negative
\* and a positive argument
FreeTokens == {t \in Tokens : t.opt \in FlagOpts \/ t.val \in {0 - 1, 1}}

RECURSIVE SeqsUpTo(_, _)
SeqsUpTo(S, n) ==
    IF n = 0 THEN {<<>>}
    ELSE LET shorter == SeqsUpTo(S, n - 1)
         IN  shorter \cup {Append(s, x) : s \in shorter, x \in S}

Maybe(t) == {<<>>, <<t>>}

BaseBam == [openable |-> TRUE, valid |-> TRUE, textlen |-> 2,
            hasVersion |-> TRUE, hasSortOrder |-> TRUE, hasGroupOrder |-> FALSE,
            hasSequences |-> TRUE, refcount |-> 2, hasReadGroups |-> TRUE,
            nprograms |-> 1, ncomments |-> 1, nrecords |-> 2]

EmptyBam == [openable |-> TRUE, valid |-> FALSE, textlen |-> 0,
             hasVersion |-> FALSE, hasSortOrder |-> FALSE, hasGroupOrder |-> FALSE,
             hasSequences |-> FALSE, refcount |-> 0, hasReadGroups |-> FALSE,
             nprograms |-> 0, ncomments |-> 0, nrecords |-> 0]

Scenario(a, f, b) == [argv |-> a, nfiles |-> f, bam |-> b]

\* Free-form command lines against a few files.
ParseScenarios ==
    {Scenario(a, f, b) : a \in SeqsUpTo(FreeTokens, MaxArgs), f \in 0 .. MaxFiles,
                         b \in {BaseBam, EmptyBam, [BaseBam EXCEPT !.openable = FALSE]}}

\* The record loop: every reads-to-report, quit, cap, progress and record count.
ReadsScenarios ==
    {Scenario(<<Tok("reads_to_report", r)>> \o q \o c \o p, f,
              [BaseBam EXCEPT !.nrecords = t, !.valid = v]) :
        r \in OptVals, q \in Maybe(Tok("quit", 0)),
        c \in {<<>>} \cup {<<Tok("reads", m)>> : m \in 0 .. MaxOptVal},
        p \in Maybe(Tok("progress", 2)),
        f \in 0 .. 1, t \in 0 .. MaxRecords, v \in BOOLEAN}

\* The reference section: every refs-to-report against every reference count.
RefsScenarios ==
    {Scenario(<<Tok("refs_to_report", n)>>, 1,
              [BaseBam EXCEPT !.hasSequences = h, !.refcount = c, !.valid = v]) :
        n \in OptVals, h \in BOOLEAN, c \in 0 .. MaxRefs, v \in BOOLEAN}

\* The raw header dump: every raw-to-report against every header length.
RawScenarios ==
    {Scenario(<<Tok("raw", 0)>> \o k \o q, 1,
              [BaseBam EXCEPT !.textlen = l, !.valid = v]) :
        k \in {<<>>} \cup {<<Tok("raw_to_report", x)>> : x \in OptVals},
        q \in Maybe(Tok("quiet", 0)),
        l \in 0 .. MaxHeaderLen, v \in BOOLEAN}

\* The header sections: every combination of optional sections.
HeaderScenarios ==
    {Scenario(q, 1, [BaseBam EXCEPT !.hasVersion = hv, !.hasSortOrder = hs,
                                    !.hasGroupOrder = hg, !.hasReadGroups = rg,
                                    !.nprograms = np, !.ncomments = nc, !.valid = v]) :
        q \in Maybe(Tok("quiet", 0)),
        hv \in BOOLEAN, hs \in BOOLEAN, hg \in BOOLEAN, rg \in BOOLEAN,
        np \in 0 .. MaxPrograms, nc \in 0 .. MaxComments, v \in BOOLEAN}

\* All options at once against two files.
MixedScenarios ==
    {Scenario(<<Tok("reads_to_report", r), Tok("refs_to_report", n)>> \o w \o k \o q \o s, 1, b) :
        r \in 0 .. 1, n \in 0 .. 1, w \in Maybe(Tok("raw", 0)),
        k \in Maybe(Tok("raw_to_report", 1)), q \in Maybe(Tok("quit", 0)),
        s \in Maybe(Tok("quiet", 0)),
        b \in {BaseBam, [BaseBam EXCEPT !.valid = FALSE]}}

Scenarios == ParseScenarios \cup ReadsScenarios \cup RefsScenarios \cup RawScenarios
             \cup HeaderScenarios \cup MixedScenarios

\* --------------------------------------------------------------- helpers
Min(a, b) == IF a < b THEN a ELSE b

Out(tag, n)    == [ch |-> "out", tag |-> tag, n |-> n]
Err(tag, n)    == [ch |-> "err", tag |-> tag, n |-> n]
Reader(tag, n) == [ch |-> "reader", tag |-> tag, n |-> n]

Lines(tag, k) == [j \in 1 .. k |-> Out(tag, j - 1)]

\* argv entries taken by one option token: SO_REQ_SEP options take two.
TokWidth(t) == IF t.opt \in ValueOpts THEN 2 ELSE 1

RECURSIVE ArgWidth(_)
ArgWidth(a) == IF a = <<>> THEN 0 ELSE TokWidth(Head(a)) + ArgWidth(Tail(a))

\* argc as main_inu receives it: argv[0] is the command name.
Argc(a, f) == 1 + ArgWidth(a) + f

\* ------------------------------------------------------ usage(), 58-97
usage_text == Err("usage", 0)

usage_return == 1

\* ------------------------------------------------- conditions of main_inu
\* line 168: args.FileCount() > 1
TooManyFilesOffByOne(f) == f > 2
TooManyFiles(f) == f > 1

\* lines 171-175: the input path (file0 stands for args.File(0))
InputFileNoDefault(f, cur) == IF f = 1 THEN "file0" ELSE cur
InputFile(f, cur) ==
    IF f = 1 THEN "file0"
    ELSE IF cur = "" THEN "/dev/stdin"
    ELSE cur

\* line 196: header_printable.length() > uint32_t(opt_raw_to_report).
\* For k < 0 the cast gives 2^32 + k; l > 2^32 + k is computed as
\* l - 2^31 > k + 2^31 to stay within the model checker's integers.
RawTruncatedInclusive(l, k) == l >= k
RawTruncated(l, k) ==
    IF k >= 0 THEN l > k
    ELSE l - 2147483647 - 1 > k + 2147483647 + 1

\* line 199: header_printable.substr(0, opt_raw_to_report): the count is
\* converted to size_t, so a negative count takes the whole string.
SubstrLen(l, k) == IF k < 0 THEN l ELSE Min(l, k)

\* line 207
QuietStopsOnlyWithRaw(quiet, raw) == quiet /\ raw
QuietStops(quiet, raw) == quiet

\* line 214
HasHeaderLine(b) == b.hasVersion \/ b.hasSortOrder \/ b.hasGroupOrder

\* line 216-218: which of VN, SO, GO are printed, as a bit mask
HeaderLineFields(b) ==
    (IF b.hasVersion THEN 1 ELSE 0) + (IF b.hasSortOrder THEN 2 ELSE 0)
    + (IF b.hasGroupOrder THEN 4 ELSE 0)

\* line 229
RefsNoticeInclusive(c, n) == c >= n
RefsNotice(c, n) == c > n

\* line 233
RefLoopCond(j, c, n) == j < c /\ j < n

\* line 283: the right operand of &&
UnderCap(n, cap) == cap < 0 \/ n < cap

\* line 287
PrintsReadExclusive(n, r) == n < r
PrintsRead(n, r) == n <= r

\* line 293: n % p == 0 in C++ holds exactly when |p| divides n
ProgressDue(n, p) == p # 0 /\ n % (IF p < 0 THEN 0 - p ELSE p) = 0

\* line 296
QuitNow(quit, n, r) == quit /\ n = r

\* The order of the blocks of main_inu after the input is opened (186-304).
AfterSwapped(s) ==
    CASE s = "validity"   -> "raw"
      [] s = "raw"        -> "quiet"
      [] s = "quiet"      -> "headerline"
      [] s = "headerline" -> "refs"
      [] s = "refs"       -> "readgroups"
      [] s = "readgroups" -> "comments"
      [] s = "comments"   -> "programs"
      [] s = "programs"   -> "reads"
      [] s = "reads"      -> "looptest"
      [] s = "tally"      -> "close"
After(s) ==
    CASE s = "validity"   -> "raw"
      [] s = "raw"        -> "quiet"
      [] s = "quiet"      -> "headerline"
      [] s = "headerline" -> "refs"
      [] s = "refs"       -> "readgroups"
      [] s = "readgroups" -> "programs"
      [] s = "programs"   -> "comments"
      [] s = "comments"   -> "reads"
      [] s = "reads"      -> "looptest"
      [] s = "tally"      -> "close"

\* ------------------------------------------------------------------ Init
Init ==
    /\ \E sc \in Scenarios : argv = sc.argv /\ nfiles = sc.nfiles /\ bam = sc.bam
    /\ optind = 0
    /\ opt_reads_to_report = DefaultReadsToReport
    /\ opt_quit = FALSE /\ opt_quiet = FALSE /\ opt_raw = FALSE
    /\ opt_refs_to_report = DefaultRefsToReport
    /\ opt_raw_to_report = DefaultRawToReport
    /\ opt_debug = DefaultDebug
    /\ opt_reads = DefaultReads
    /\ opt_progress = DefaultProgress
    /\ input_file = ""
    /\ opened = FALSE /\ closed = FALSE /\ requested = 0
    /\ ref_count = 0 /\ i = 0 /\ n_reads = 0
    /\ log = <<>>
    /\ pc = "argc" /\ rc = 0 - 1

\* --------------------------------------------------------------- actions
Return(code) == pc' = "done" /\ rc' = code

\* lines 108-110
CheckArgc ==
    /\ pc = "argc"
    /\ IF Argc(argv, nfiles) < 2
       THEN log' = Append(log, usage_text) /\ Return(usage_return)
       ELSE log' = log /\ pc' = "args" /\ rc' = rc
    /\ UNCHANGED <<inputs, optind, opts, input_file, opened, closed, requested, locals>>

\* lines 139-143: args.Next() yields an argument with an error
ArgInvalid ==
    /\ pc = "args" /\ optind < Len(argv)
    /\ argv[optind + 1].opt = "bad"
    /\ log' = log \o <<Err("invalid_argument", 0), usage_text>>
    /\ Return(usage_return)
    /\ optind' = optind + 1
    /\ UNCHANGED <<inputs, opts, input_file, opened, closed, requested, locals>>

\* line 144
ArgHelp ==
    /\ pc = "args" /\ optind < Len(argv)
    /\ argv[optind + 1].opt = "help"
    /\ log' = Append(log, usage_text)
    /\ Return(usage_return)
    /\ optind' = optind + 1
    /\ UNCHANGED <<inputs, opts, input_file, opened, closed, requested, locals>>

\* lines 145-160: one option is stored
ArgOption ==
    /\ pc = "args" /\ optind < Len(argv)
    /\ LET t == argv[optind + 1] IN
       /\ t.opt \notin {"bad", "help"}
       /\ opt_reads_to_report' = IF t.opt = "reads_to_report" THEN t.val ELSE opt_reads_to_report
       /\ opt_refs_to_report' = IF t.opt = "refs_to_report" THEN t.val ELSE opt_refs_to_report
       /\ opt_quit' = (opt_quit \/ t.opt = "quit")
       /\ opt_quiet' = (opt_quiet \/ t.opt = "quiet")
       /\ opt_raw' = (opt_raw \/ t.opt = "raw")
       /\ opt_raw_to_report' = IF t.opt = "raw_to_report" THEN t.val ELSE opt_raw_to_report
       /\ opt_debug' = IF t.opt = "debug" THEN t.val ELSE opt_debug
       /\ opt_reads' = IF t.opt = "reads" THEN t.val ELSE opt_reads
       /\ opt_progress' = IF t.opt = "progress" THEN t.val ELSE opt_progress
    /\ optind' = optind + 1
    /\ UNCHANGED <<inputs, input_file, opened, closed, requested, locals, log, pc, rc>>

\* line 139, args.Next() returns false
ArgsDone ==
    /\ pc = "args" /\ optind = Len(argv)
    /\ pc' = "files"
    /\ UNCHANGED <<inputs, optind, opts, input_file, opened, closed, requested, locals, log, rc>>

\* lines 168-175
FileCount ==
    /\ pc = "files"
    /\ IF TooManyFiles(nfiles)
       THEN /\ log' = log \o <<Err("too_many_files", 0), usage_text>>
            /\ Return(usage_return)
            /\ input_file' = input_file
       ELSE /\ input_file' = InputFile(nfiles, input_file)
            /\ log' = log /\ pc' = "open" /\ rc' = rc
    /\ UNCHANGED <<inputs, optind, opts, opened, closed, requested, locals>>

\* lines 179-184
OpenFailureIgnored ==
    /\ pc = "open"
    /\ IF bam.openable
       THEN /\ opened' = TRUE
            /\ log' = Append(log, Reader("open", 1))
            /\ pc' = "validity" /\ rc' = rc
       ELSE /\ opened' = FALSE
            /\ log' = log \o <<Reader("open", 0), Err("open_failed", 0)>>
            /\ Return(0)
    /\ UNCHANGED <<inputs, optind, opts, input_file, closed, requested, locals>>
Open ==
    /\ pc = "open"
    /\ IF bam.openable
       THEN /\ opened' = TRUE
            /\ log' = Append(log, Reader("open", 1))
            /\ pc' = "validity" /\ rc' = rc
       ELSE /\ opened' = FALSE
            /\ log' = log \o <<Reader("open", 0), Err("open_failed", 0)>>
            /\ Return(1)
    /\ UNCHANGED <<inputs, optind, opts, input_file, closed, requested, locals>>

\* lines 186-192
CheckHeaderFatal ==
    /\ pc = "validity"
    /\ IF bam.valid
       THEN log' = log /\ pc' = After("validity") /\ rc' = rc
       ELSE log' = log \o <<Out("invalid_header", 0), Out("error_string", 0)>> /\ Return(1)
    /\ UNCHANGED <<inputs, optind, opts, input_file, opened, closed, requested, locals>>
CheckHeader ==
    /\ pc = "validity"
    /\ log' = IF bam.valid THEN log
              ELSE log \o <<Out("invalid_header", 0), Out("error_string", 0)>>
    /\ pc' = After("validity")
    /\ UNCHANGED <<inputs, optind, opts, input_file, opened, closed, requested, locals, rc>>

\* lines 194-205
Raw ==
    /\ pc = "raw"
    /\ log' = IF ~opt_raw THEN log
              ELSE IF RawTruncated(bam.textlen, opt_raw_to_report)
              THEN log \o <<Out("raw_first", opt_raw_to_report),
                            Out("raw_text", SubstrLen(bam.textlen, opt_raw_to_report))>>
              ELSE log \o <<Out("raw_complete", 0), Out("raw_text", bam.textlen)>>
    /\ pc' = After("raw")
    /\ UNCHANGED <<inputs, optind, opts, input_file, opened, closed, requested, locals, rc>>

\* lines 207-210
Quiet ==
    /\ pc = "quiet"
    /\ IF QuietStops(opt_quiet, opt_raw)
       THEN /\ closed' = TRUE
            /\ log' = Append(log, Reader("close", 0))
            /\ Return(0)
       ELSE /\ closed' = closed /\ log' = log
            /\ pc' = After("quiet") /\ rc' = rc
    /\ UNCHANGED <<inputs, optind, opts, input_file, opened, requested, locals>>

\* lines 214-220
HeaderLine ==
    /\ pc = "headerline"
    /\ log' = Append(log, IF HasHeaderLine(bam)
                          THEN Out("headerline", HeaderLineFields(bam))
                          ELSE Out("no_headerline", 0))
    /\ pc' = After("headerline")
    /\ UNCHANGED <<inputs, optind, opts, input_file, opened, closed, requested, locals, rc>>

\* lines 224-232 and 239
Refs ==
    /\ pc = "refs"
    /\ IF bam.hasSequences
       THEN /\ ref_count' = bam.refcount
            /\ log' = (IF RefsNotice(bam.refcount, opt_refs_to_report)
                       THEN Append(log, Out("ref_first", opt_refs_to_report))
                       ELSE log)
                      \o <<Reader("refdata", 0)>>
            /\ i' = 0
            /\ pc' = "refloop"
       ELSE /\ log' = Append(log, Out("no_refs", 0))
            /\ UNCHANGED <<ref_count, i>>
            /\ pc' = After("refs")
    /\ UNCHANGED <<inputs, optind, opts, input_file, opened, closed, requested, n_reads, rc>>

\* lines 233-238, one iteration
RefLoop ==
    /\ pc = "refloop"
    /\ RefLoopCond(i, ref_count, opt_refs_to_report)
    /\ log' = Append(log, Out("ref_sq", i))
    /\ i' = i + 1
    /\ UNCHANGED <<inputs, optind, opts, input_file, opened, closed, requested,
                   ref_count, n_reads, pc, rc>>

\* line 233, the loop condition is false
RefLoopEnd ==
    /\ pc = "refloop"
    /\ ~RefLoopCond(i, ref_count, opt_refs_to_report)
    /\ pc' = After("refs")
    /\ UNCHANGED <<inputs, optind, opts, input_file, opened, closed, requested, locals, log, rc>>

\* lines 243-246
ReadGroups ==
    /\ pc = "readgroups"
    /\ log' = Append(log, IF bam.hasReadGroups THEN Out("readgroups", 0)
                          ELSE Out("no_readgroups", 0))
    /\ pc' = After("readgroups")
    /\ UNCHANGED <<inputs, optind, opts, input_file, opened, closed, requested, locals, rc>>

\* lines 250-261: HasPrograms() is "the program chain is not empty"
Programs ==
    /\ pc = "programs"
    /\ log' = IF bam.nprograms > 0 THEN log \o Lines("program", bam.nprograms)
              ELSE Append(log, Out("no_programs", 0))
    /\ pc' = After("programs")
    /\ UNCHANGED <<inputs, optind, opts, input_file, opened, closed, requested, locals, rc>>

\* lines 266-271
Comments ==
    /\ pc = "comments"
    /\ log' = IF bam.ncomments > 0 THEN log \o Lines("comment", bam.ncomments)
              ELSE Append(log, Out("no_comments", 0))
    /\ pc' = After("comments")
    /\ UNCHANGED <<inputs, optind, opts, input_file, opened, closed, requested, locals, rc>>

\* lines 275-281
Reads ==
    /\ pc = "reads"
    /\ n_reads' = 0
    /\ log' = IF opt_reads_to_report # 0
              THEN Append(log, Out("read_first", opt_reads_to_report))
              ELSE log
    /\ pc' = After("reads")
    /\ UNCHANGED <<inputs, optind, opts, input_file, opened, closed, requested,
                   ref_count, i, rc>>

\* line 283: GetNextAlignmentCore is called first; the cap is tested only
\* when it returned true
LoopTest ==
    /\ pc = "looptest"
    /\ requested' = requested + 1
    /\ LET got == requested + 1 <= bam.nrecords IN
       /\ log' = Append(log, Reader("next", IF got THEN requested + 1 ELSE 0))
       /\ pc' = IF got /\ UnderCap(n_reads, opt_reads) THEN "loopbody" ELSE "tally"
    /\ UNCHANGED <<inputs, optind, opts, input_file, opened, closed, locals, rc>>

\* lines 285-297; the record in al is the one the last call returned
LoopBody ==
    /\ pc = "loopbody"
    /\ n_reads' = n_reads + 1
    /\ log' = log
              \o (IF PrintsRead(n_reads + 1, opt_reads_to_report)
                  THEN <<Out("read", requested)>> ELSE <<>>)
              \o (IF ProgressDue(n_reads + 1, opt_progress)
                  THEN <<Err("progress", n_reads + 1)>> ELSE <<>>)
    /\ pc' = IF QuitNow(opt_quit, n_reads + 1, opt_reads_to_report) THEN "tally" ELSE "looptest"
    /\ UNCHANGED <<inputs, optind, opts, input_file, opened, closed, requested,
                   ref_count, i, rc>>

\* line 300
Tally ==
    /\ pc = "tally"
    /\ log' = Append(log, Out("tally", n_reads))
    /\ pc' = After("tally")
    /\ UNCHANGED <<inputs, optind, opts, input_file, opened, closed, requested, locals, rc>>

\* lines 302-304
Close ==
    /\ pc = "close"
    /\ closed' = TRUE
    /\ log' = Append(log, Reader("close", 0))
    /\ Return(0)
    /\ UNCHANGED <<inputs, optind, opts, input_file, opened, requested, locals>>

Next ==
    \/ CheckArgc \/ ArgInvalid \/ ArgHelp \/ ArgOption \/ ArgsDone \/ FileCount
    \/ Open \/ CheckHeader \/ Raw \/ Quiet \/ HeaderLine
    \/ Refs \/ RefLoop \/ RefLoopEnd \/ ReadGroups \/ Programs \/ Comments
    \/ Reads \/ LoopTest \/ LoopBody \/ Tally \/ Close

Spec == Init /\ [][Next]_vars

\* ------------------------------------------------- views of the log
IsOut(e)  == e.ch = "out"
IsErr(e)  == e.ch = "err"
NotErr(e) == e.ch # "err"

out == SelectSeq(log, IsOut)
err == SelectSeq(log, IsErr)

Tagged(tag) == {j \in 1 .. Len(log) : log[j].tag = tag}
Has(tag)    == Tagged(tag) # {}

IsRead(e) == e.tag = "read"
IsRefSq(e) == e.tag = "ref_sq"
IsRawText(e) == e.tag = "raw_text"
IsTally(e) == e.tag = "tally"

ReadLines == SelectSeq(log, IsRead)
RefLines  == SelectSeq(log, IsRefSq)
RawTexts  == SelectSeq(log, IsRawText)
Tallies   == SelectSeq(log, IsTally)

Done == pc = "done"
\* the run went through the whole report (not quiet) and returned
Reported == Done /\ rc = 0 /\ ~opt_quiet

ValidityText(valid) ==
    IF valid THEN <<>> ELSE <<Out("invalid_header", 0), Out("error_string", 0)>>

StopTokens == {"bad", "help"}
CleanArgs == \A j \in 1 .. Len(argv) : argv[j].opt \notin StopTokens

\* ---------------------------------------------------------------- C1
\* C1: in a non-quiet run without quit-early and with the record cap at its
\* default, for T records and reads-to-report R >= 0, exactly min(T, R)
\* "[read]" record lines are printed, for records 1 .. min(T, R) in file
\* order, and the tally printed is T.
C1_ReadListing ==
    (Reported /\ ~opt_quit /\ opt_reads = DefaultReads /\ opt_reads_to_report >= 0)
    => /\ Len(ReadLines) = Min(bam.nrecords, opt_reads_to_report)
       /\ \A j \in 1 .. Len(ReadLines) : ReadLines[j].n = j
       /\ Tallies = <<Out("tally", bam.nrecords)>>

C1_Witness ==
    /\ Reported /\ ~opt_quit /\ opt_reads = DefaultReads
    /\ opt_reads_to_report = 2 /\ bam.nrecords = 3
    /\ Len(ReadLines) = 2

\* ---------------------------------------------------------------- C2
\* C2: with quit-early set (record cap at its default), for every
\* reads-to-report R >= 0 and every record count T, the reader hands over no
\* record after the R-th and the tally printed is min(T, R).
C2_QuitStopsAtReportCount ==
    (Reported /\ opt_quit /\ opt_reads = DefaultReads /\ opt_reads_to_report >= 0)
    => /\ \A j \in Tagged("next") : log[j].n <= opt_reads_to_report
       /\ Tallies = <<Out("tally", Min(bam.nrecords, opt_reads_to_report))>>

\* ---------------------------------------------------------------- C3
\* C3: in a non-quiet run whose header has reference sequences, for
\* reference count C and refs-to-report N >= 0, exactly min(C, N) "@SQ" lines
\* are printed, for indices 0 .. min(C, N) - 1 in increasing order, and the
\* "displaying the first N" notice is printed if and only if C > N.
C3_RefListing ==
    (Reported /\ bam.hasSequences /\ opt_refs_to_report >= 0)
    => /\ Len(RefLines) = Min(bam.refcount, opt_refs_to_report)
       /\ \A j \in 1 .. Len(RefLines) : RefLines[j].n = j - 1
       /\ Has("ref_first") <=> bam.refcount > opt_refs_to_report
       /\ Cardinality(Tagged("ref_first")) <= 1
       /\ ~Has("no_refs")

C3_Witness ==
    /\ Reported /\ bam.hasSequences
    /\ opt_refs_to_report = 2 /\ bam.refcount = 3
    /\ Len(RefLines) = 2 /\ Has("ref_first")

\* ---------------------------------------------------------------- C4
\* The raw dump of a run that has passed it: the characters printed are
\* min(L, K), the "first K characters" notice is there exactly when L > K,
\* and otherwise the "complete contents" notice with the whole text.
RawDumpIsMin ==
    /\ Len(RawTexts) = 1
    /\ RawTexts[1].n = Min(bam.textlen, opt_raw_to_report)
    /\ Has("raw_first") <=> bam.textlen > opt_raw_to_report
    /\ Has("raw_complete") <=> ~(bam.textlen > opt_raw_to_report)
    /\ Has("raw_complete") => RawTexts[1].n = bam.textlen

\* C4 as stated: with the raw flag set, for every header text length L and
\* every raw-to-report value K, the raw dump is as RawDumpIsMin says.
C4_RawDumpAnyLimit ==
    (Done /\ opened /\ opt_raw) => RawDumpIsMin

\* C4 amended: the same for every raw-to-report value K >= 0.
C4_RawDumpNonNegativeLimit ==
    (Done /\ opened /\ opt_raw /\ opt_raw_to_report >= 0) => RawDumpIsMin

C4_Witness ==
    /\ Done /\ opened /\ opt_raw
    /\ opt_raw_to_report = 2 /\ bam.textlen = 3
    /\ Has("raw_first") /\ RawTexts = <<Out("raw_text", 2)>>

\* ---------------------------------------------------------------- C5
\* C5: with quiet set and raw unset, once the input is opened the only
\* output is the validity error text of an invalid header, no reference data
\* and no record is requested from the reader, and the run closes the reader
\* and returns 0.
C5_QuietOnlyChecks ==
    (opened /\ opt_quiet /\ ~opt_raw)
    => /\ out \in {<<>>, ValidityText(bam.valid)}
       /\ requested = 0 /\ ~Has("next") /\ ~Has("refdata")
       /\ Done => /\ rc = 0 /\ closed
                  /\ out = ValidityText(bam.valid)
                  /\ log[Len(log)] = Reader("close", 0)

C5_Witness ==
    /\ Done /\ opened /\ opt_quiet /\ ~opt_raw /\ ~bam.valid
    /\ out = ValidityText(FALSE) /\ closed

\* ---------------------------------------------------------------- C6
\* C6: with two or more positional arguments the input is never opened,
\* nothing is written to standard output, and the run ends with the usage
\* text and exit code 1, whatever the options are.
C6_TwoFilesUsage ==
    nfiles >= 2
    => /\ ~opened /\ ~Has("open") /\ out = <<>>
       /\ Done => rc = 1 /\ Has("usage")

C6_Witness ==
    /\ Done /\ nfiles = 2 /\ Len(argv) = 2 /\ CleanArgs
    /\ Has("too_many_files") /\ Has("usage") /\ rc = 1

\* ---------------------------------------------------------------- C7
ReadsStdin == ~Has("usage") /\ Has("open") /\ input_file = "/dev/stdin"

\* C7 as stated: every command line without a positional path and without
\* an invalid or help option reads from standard input, the one without any
\* argument included.
C7_NoPathReadsStdin ==
    (Done /\ nfiles = 0 /\ CleanArgs) => ReadsStdin

\* C7 amended: every command line with at least one option, without a
\* positional path and without an invalid or help option opens /dev/stdin
\* and writes no usage text; the one without any argument (argc < 2) ends
\* with the usage text and exit code 1 and opens nothing.
C7_OptionsOnlyReadsStdin ==
    /\ (Done /\ nfiles = 0 /\ CleanArgs /\ Len(argv) >= 1) => ReadsStdin
    /\ (Done /\ Argc(argv, nfiles) < 2) => (log = <<usage_text>> /\ rc = 1 /\ input_file = "")

C7_Witness ==
    /\ Done /\ nfiles = 0 /\ CleanArgs /\ Len(argv) = 1
    /\ opened /\ input_file = "/dev/stdin" /\ rc = 0

\* ---------------------------------------------------------------- C8
\* C8 as stated: the exit code is 0 or 1, and it is 1 exactly when the run
\* ended in a usage error (unknown or malformed option, more than one
\* positional path) or the input failed to open; a run given only the help
\* flag exits 0.
C8_ExitOneOnlyOnError ==
    Done => /\ rc \in {0, 1}
            /\ rc = 1 <=> (Has("invalid_argument") \/ Has("too_many_files")
                           \/ Has("open_failed"))

\* the command line ends in usage(): no argument at all, a help flag, an
\* unknown or malformed option, or more than one positional path
EndsInUsage == Argc(argv, nfiles) < 2 \/ ~CleanArgs \/ nfiles > 1

\* C8 amended: the exit code is 0 or 1, and it is 1 exactly when the run
\* ended in the usage text (no argument at all, the help flag, an unknown or
\* malformed option, more than one positional path) or the input failed to
\* open.
C8_ExitOneOnUsageOrOpenFailure ==
    Done => /\ rc \in {0, 1}
            /\ rc = 1 <=> (EndsInUsage \/ ~bam.openable)
            /\ Has("usage") <=> EndsInUsage
            /\ Has("open_failed") <=> (~EndsInUsage /\ ~bam.openable)

C8_Witness ==
    /\ Done /\ rc = 1 /\ argv = <<Tok("help", 0)>> /\ nfiles = 1
    /\ err = <<usage_text>>

\* ---------------------------------------------------------------- C9
\* What a run writes and asks of the reader after the validity check, as a
\* function of the options and of the file b; b.valid is not read.
RawPart(b) ==
    IF ~opt_raw THEN <<>>
    ELSE IF RawTruncated(b.textlen, opt_raw_to_report)
    THEN <<Out("raw_first", opt_raw_to_report),
           Out("raw_text", SubstrLen(b.textlen, opt_raw_to_report))>>
    ELSE <<Out("raw_complete", 0), Out("raw_text", b.textlen)>>

HeaderPart(b) ==
    IF b.hasVersion \/ b.hasSortOrder \/ b.hasGroupOrder
    THEN <<Out("headerline", HeaderLineFields(b))>>
    ELSE <<Out("no_headerline", 0)>>

RefPart(b) ==
    IF ~b.hasSequences THEN <<Out("no_refs", 0)>>
    ELSE (IF b.refcount > opt_refs_to_report
          THEN <<Out("ref_first", opt_refs_to_report)>> ELSE <<>>)
         \o <<Reader("refdata", 0)>>
         \o [j \in 1 .. Min(b.refcount, IF opt_refs_to_report < 0 THEN 0 ELSE opt_refs_to_report)
               |-> Out("ref_sq", j - 1)]

SectionsPart(b) ==
    <<IF b.hasReadGroups THEN Out("readgroups", 0) ELSE Out("no_readgroups", 0)>>
    \o (IF b.nprograms > 0 THEN [j \in 1 .. b.nprograms |-> Out("program", j - 1)]
        ELSE <<Out("no_programs", 0)>>)
    \o (IF b.ncomments > 0 THEN [j \in 1 .. b.ncomments |-> Out("comment", j - 1)]
        ELSE <<Out("no_comments", 0)>>)

\* records counted: all of them, unless the cap or the quit-early flag stops
\* the loop sooner
Counted(b) ==
    Min(b.nrecords,
        Min(IF opt_reads < 0 THEN b.nrecords ELSE opt_reads,
            IF opt_quit /\ opt_reads_to_report >= 1 THEN opt_reads_to_report ELSE b.nrecords))

StoppedByQuit(b) == opt_quit /\ opt_reads_to_report >= 1 /\ Counted(b) = opt_reads_to_report

PerRecord(j) ==
    <<Reader("next", j)>>
    \o (IF j <= opt_reads_to_report THEN <<Out("read", j)>> ELSE <<>>)
    \o (IF opt_progress # 0 /\ j % (IF opt_progress < 0 THEN 0 - opt_progress ELSE opt_progress) = 0
        THEN <<Err("progress", j)>> ELSE <<>>)

RECURSIVE RecordsUpTo(_)
RecordsUpTo(j) == IF j = 0 THEN <<>> ELSE RecordsUpTo(j - 1) \o PerRecord(j)

ReadsPart(b) ==
    (IF opt_reads_to_report # 0 THEN <<Out("read_first", opt_reads_to_report)>> ELSE <<>>)
    \o RecordsUpTo(Counted(b))
    \o (IF StoppedByQuit(b) THEN <<>>
        ELSE <<Reader("next", IF Counted(b) + 1 <= b.nrecords THEN Counted(b) + 1 ELSE 0)>>)
    \o <<Out("tally", Counted(b))>>

RunAfterValidity(b) ==
    RawPart(b)
    \o (IF opt_quiet THEN <<>>
        ELSE HeaderPart(b) \o RefPart(b) \o SectionsPart(b) \o ReadsPart(b))
    \o <<Reader("close", 0)>>

\* C9: a run whose header fails the validity check writes the error text
\* and then does exactly what the run on the same file with a valid header
\* does (raw dump, quiet stop, report sections, record loop, tally, close),
\* and returns 0.
C9_InvalidHeaderNonFatal ==
    (Done /\ opened)
    => /\ log = <<Reader("open", 1)>> \o ValidityText(bam.valid)
                \o RunAfterValidity([bam EXCEPT !.valid = TRUE])
       /\ rc = 0 /\ closed

C9_Witness ==
    /\ Done /\ opened /\ ~bam.valid /\ ~opt_quiet /\ opt_raw
    /\ Has("invalid_header") /\ Has("raw_text") /\ Has("read") /\ Has("tally")
    /\ rc = 0

\* --------------------------------------------------------------- C10
\* the section of an event, in the order of the report
Rank(e) ==
    CASE e.tag = "open" -> 0
      [] e.tag \in {"invalid_header", "error_string"} -> 1
      [] e.tag \in {"raw_first", "raw_complete", "raw_text"} -> 2
      [] e.tag \in {"headerline", "no_headerline"} -> 3
      [] e.tag \in {"ref_first", "refdata", "ref_sq", "no_refs"} -> 4
      [] e.tag \in {"readgroups", "no_readgroups"} -> 5
      [] e.tag \in {"program", "no_programs"} -> 6
      [] e.tag \in {"comment", "no_comments"} -> 7
      [] e.tag \in {"read_first", "next", "read"} -> 8
      [] e.tag = "tally" -> 9
      [] e.tag = "close" -> 10

Events == SelectSeq(log, NotErr)

\* C10: in a run that opened its input the events come in the order
\* validity message, raw dump, header line, references, read groups,
\* programs, comments, reads, tally, close; the report sections appear only
\* when quiet is unset; the tally is written once, after the last record is
\* requested; and the close is the last event.
C10_SectionOrder ==
    opened
    => /\ \A j \in 1 .. Len(Events) : \A k \in j .. Len(Events) :
              Rank(Events[j]) <= Rank(Events[k])
       /\ opt_quiet => \A j \in 1 .. Len(Events) : Rank(Events[j]) \in {0, 1, 2, 10}
       /\ Len(Tallies) <= 1
       /\ Cardinality(Tagged("close")) <= 1
       /\ closed <=> Has("close")
       /\ Done => /\ Events[Len(Events)].tag = "close"
                  /\ ~opt_quiet => Len(Tallies) = 1
                  /\ ~opt_quiet => {3, 4, 5, 6, 7, 8} \subseteq {Rank(Events[j]) : j \in 1 .. Len(Events)}

C10_Witness ==
    /\ Done /\ opened /\ ~opt_quiet /\ opt_raw /\ ~bam.valid
    /\ Has("program") /\ Has("comment") /\ Has("ref_sq") /\ Has("read")
    /\ Len(Tallies) = 1 /\ closed

====
